---- MODULE Spec2Model ----
(***************************************************************************)
(* Model of the interval overlap resolution engine of transfer_linkage    *)
(* (src/transfer_linkage/overlap_fixer.py): clean_overlaps = transform,    *)
(* slow_break (a sweep over the sorted events with a resumption stack)     *)
(* and inverse_transform.  One call of clean_overlaps on one subject's     *)
(* stays is one behaviour; every iteration of the while loop of slow_break *)
(* is one step.                                                            *)
(***************************************************************************)
EXTENDS Integers, Sequences, FiniteSets

VARIABLES chunk, pc, times, fid, state, records, stack, consumed, result, error,
          caller, version, verbose, table, pending, done, record_log, calls

\* the state of the callers of clean_overlaps in cleaner.py
outer == <<caller, version, verbose, table, pending, done, record_log, calls>>

vars == <<chunk, pc, times, fid, state, records, stack, consumed, result, error,
          caller, version, verbose, table, pending, done, record_log, calls>>

----------------------------------------------------------------------------
(* Bounds of the input space *)

\* facility identifiers are 1..NumFac (compared as the code compares xid)
NumFac == 2
\* timestamps are 1..MaxTime
MaxTime == 5
\* well-formed inputs have at most MaxStays stays
MaxStays == 2
\* inputs that may hold stays with start_time >= end_time: their time range
AnyMaxTime == 2
\* ... and their largest number of stays
AnyMaxStays == 2
\* the nesting scenario takes its 8 boundaries from 1..NestMaxTime
NestMaxTime == 8
\* ... and its facilities from 1..NestNumFac
NestNumFac == 3

----------------------------------------------------------------------------
(* Values of the program *)

\* EventClass.start / EventClass.end, ordered by value
EvStart == 0
EvEnd == 1
\* Python's None, for fid and state
None == -1

\* a stay is the tuple (xid, start_time, end_time)
Stay(f, s, e) == <<f, s, e>>

\* tuple comparison of two events (date, xid, category): lexicographic
EventLess(a, b) ==
    \/ a[1] < b[1]
    \/ a[1] = b[1] /\ a[2] < b[2]
    \/ a[1] = b[1] /\ a[2] = b[2] /\ a[3] < b[3]

\* the list comprehension of transform, before sorted(): two events per
\* interval, in the order of the intervals
EventList(intervals) ==
    [k \in 1..(2 * Len(intervals)) |->
        IF k % 2 = 1
        THEN <<intervals[(k + 1) \div 2][2], intervals[(k + 1) \div 2][1], EvStart>>
        ELSE <<intervals[k \div 2][3], intervals[k \div 2][1], EvEnd>>]

\* insertion of one event into a sorted list, after every element that is
\* not greater (a stable sort)
RECURSIVE InsertEvent(_, _)
InsertEvent(e, sorted) ==
    IF sorted = <<>> THEN <<e>>
    ELSE IF EventLess(e, Head(sorted)) THEN <<e>> \o sorted
    ELSE <<Head(sorted)>> \o InsertEvent(e, Tail(sorted))

RECURSIVE InsertionSort(_)
InsertionSort(evs) ==
    IF evs = <<>> THEN <<>>
    ELSE InsertEvent(evs[Len(evs)], InsertionSort(SubSeq(evs, 1, Len(evs) - 1)))

\* a sort that is missing: the events stay in the order of the input
SortEventsMissing(evs) == evs

\* sorted(...) of transform and times.sort() of slow_break
SortEvents(evs) == InsertionSort(evs)

\* transform(intervals)
transform(intervals) == SortEvents(EventList(intervals))

\* a removal that takes the top of the stack whatever x is
RemoveLast(s, x) == SubSeq(s, 1, Len(s) - 1)

\* deque.remove(x): drops the first (leftmost) occurrence of x
RECURSIVE RemoveFirst(_, _)
RemoveFirst(s, x) ==
    IF s = <<>> THEN <<>>
    ELSE IF Head(s) = x THEN Tail(s)
    ELSE <<Head(s)>> \o RemoveFirst(Tail(s), x)

InSeq(s, x) == \E i \in 1..Len(s) : s[i] = x

\* inverse_transform: the markers taken two at a time
PairCount(events) == Len(events) \div 2

\* the assertion of inverse_transform holds for every pair
PairsMatch(events) ==
    \A i \in 1..PairCount(events) : events[2 * i - 1][2] = events[2 * i][2]

inverse_transform(events) ==
    [i \in 1..PairCount(events) |->
        <<events[2 * i - 1][2], events[2 * i - 1][1], events[2 * i][1]>>]

----------------------------------------------------------------------------
(* Inputs *)

WellFormedStay(st) == st[2] < st[3]
WellFormed(c) == \A i \in 1..Len(c) : WellFormedStay(c[i])

\* stays with start_time < end_time
GoodStays == {st \in (1..NumFac) \X (1..MaxTime) \X (1..MaxTime) : WellFormedStay(st)}
\* stays of any shape, start_time >= end_time included
AnyStays == (1..NumFac) \X (1..AnyMaxTime) \X (1..AnyMaxTime)

SeqsUpTo(S, n) == UNION {[1..k -> S] : k \in 0..n}

\* well-formed inputs, in any order
GoodInputs == SeqsUpTo(GoodStays, MaxStays)
\* inputs of any shape, in any order
AnyInputs == SeqsUpTo(AnyStays, AnyMaxStays)

Perms(n) == {p \in [1..n -> 1..n] : \A i, j \in 1..n : p[i] = p[j] => i = j}

\* the elements of a set of numbers in increasing order
RECURSIVE Ascending(_)
Ascending(S) ==
    IF S = {} THEN <<>>
    ELSE LET m == CHOOSE x \in S : \A y \in S : x <= y
         IN <<m>> \o Ascending(S \ {m})

\* the strictly increasing sequences of n timestamps of 1..max
IncreasingTimes(n, max) == {Ascending(S) : S \in {T \in SUBSET (1..max) : Cardinality(T) = n}}

\* the nesting scenario: sa < sb < sc < ea < ec < eb < s4 < e4, the four stays
\* in any order, the facilities of the three nested stays chosen freely, the
\* later stay being of the facility of the second
NestInputs ==
    {[i \in 1..4 |-> (<<Stay(fs[1], ts[1], ts[4]), Stay(fs[2], ts[2], ts[6]),
                       Stay(fs[3], ts[3], ts[5]), Stay(fs[2], ts[7], ts[8])>>)[p[i]]] :
        ts \in IncreasingTimes(8, NestMaxTime),
        fs \in [1..3 -> 1..NestNumFac],
        p \in Perms(4)}

----------------------------------------------------------------------------
(* clean_overlaps(chunk) *)

Init ==
    /\ chunk \in GoodInputs \cup AnyInputs \cup NestInputs
    /\ pc = "clean_overlaps"
    /\ times = <<>>
    /\ fid = None
    /\ state = None
    /\ records = <<>>
    /\ stack = <<>>
    /\ consumed = <<>>
    /\ result = <<>>
    /\ error = "none"
    /\ caller = "clean_overlaps"
    /\ version = "overlap_fixer"
    /\ verbose = FALSE
    /\ table = <<None, <<>>>>
    /\ pending = <<>>
    /\ done = <<>>
    /\ record_log = <<>>
    /\ calls = 1

\* breakable_input = transform(chunk); slow_break is entered: times.sort(),
\* the locals are set
EnterSlowBreak ==
    /\ pc = "clean_overlaps"
    /\ times' = SortEvents(transform(chunk))
    /\ fid' = None
    /\ state' = None
    /\ records' = <<>>
    /\ stack' = <<>>
    /\ pc' = "sweep"
    /\ UNCHANGED outer
    /\ UNCHANGED <<chunk, consumed, result, error>>

\* the event at the head of the queue: ti, fi, si = times.pop(0)
ti == Head(times)[1]
fi == Head(times)[2]
si == Head(times)[3]

Pop ==
    /\ pc = "sweep"
    /\ times # <<>>
    /\ times' = Tail(times)
    /\ consumed' = Append(consumed, Head(times))

\* if state is None and not stack
CaseIdle ==
    /\ Pop
    /\ state = None /\ stack = <<>>
    /\ fid' = fi
    /\ IF si = EvStart
       THEN /\ state' = si
            /\ records' = Append(records, <<ti, fi, si>>)
            /\ pc' = pc
            /\ error' = error
       ELSE /\ pc' = "raised"
            /\ error' = "AssertionError"
            /\ UNCHANGED <<state, records>>
    /\ UNCHANGED outer
    /\ UNCHANGED <<chunk, stack, result>>

\* a same-facility start that pushes but emits no boundary markers
CaseSameStartNoRecords ==
    /\ Pop
    /\ ~(state = None /\ stack = <<>>)
    /\ si = EvStart /\ fi = fid
    /\ stack' = Append(stack, fid)
    /\ UNCHANGED outer
    /\ UNCHANGED <<chunk, pc, fid, state, records, result, error>>

\* a same-facility start that splits the open stay but pushes nothing
CaseSameStartNoPush ==
    /\ Pop
    /\ ~(state = None /\ stack = <<>>)
    /\ si = EvStart /\ fi = fid
    /\ records' = records \o <<<<ti, fid>>, <<ti, fi>>>>
    /\ UNCHANGED outer
    /\ UNCHANGED <<chunk, pc, fid, state, stack, result, error>>

\* elif si is EventClass.start and fi == fid
CaseSameStart ==
    /\ Pop
    /\ ~(state = None /\ stack = <<>>)
    /\ si = EvStart /\ fi = fid
    /\ records' = records \o <<<<ti, fid>>, <<ti, fi>>>>
    /\ stack' = Append(stack, fid)
    /\ UNCHANGED outer
    /\ UNCHANGED <<chunk, pc, fid, state, result, error>>

\* an overlapping start that suspends the new facility, not the active one
CaseOtherStartKeepsActive ==
    /\ Pop
    /\ ~(state = None /\ stack = <<>>)
    /\ si = EvStart /\ fi # fid
    /\ stack' = Append(stack, fi)
    /\ UNCHANGED outer
    /\ UNCHANGED <<chunk, pc, fid, state, records, result, error>>

\* an overlapping start that emits no End marker for the suspended facility
CaseOtherStartNoEndMarker ==
    /\ Pop
    /\ ~(state = None /\ stack = <<>>)
    /\ si = EvStart /\ fi # fid
    /\ stack' = Append(stack, fid)
    /\ records' = Append(records, <<ti, fi>>)
    /\ fid' = fi
    /\ UNCHANGED outer
    /\ UNCHANGED <<chunk, pc, state, result, error>>

\* elif si is EventClass.start and fi != fid
CaseOtherStart ==
    /\ Pop
    /\ ~(state = None /\ stack = <<>>)
    /\ si = EvStart /\ fi # fid
    /\ stack' = Append(stack, fid)
    /\ records' = records \o <<<<ti, fid>>, <<ti, fi>>>>
    /\ fid' = fi
    /\ UNCHANGED outer
    /\ UNCHANGED <<chunk, pc, state, result, error>>

\* an end of the active stay that never resumes a suspended facility
CaseEndActiveNoResume ==
    /\ Pop
    /\ ~(state = None /\ stack = <<>>)
    /\ si = EvEnd /\ fi = fid
    /\ state' = None
    /\ fid' = None
    /\ records' = Append(records, <<ti, fi>>)
    /\ UNCHANGED outer
    /\ UNCHANGED <<chunk, pc, stack, result, error>>

\* an end of the active stay that leaves fid set when nothing is suspended
CaseEndActiveKeepsFid ==
    /\ Pop
    /\ ~(state = None /\ stack = <<>>)
    /\ si = EvEnd /\ fi = fid
    /\ IF stack # <<>>
       THEN /\ state' = EvStart
            /\ fid' = stack[Len(stack)]
            /\ stack' = SubSeq(stack, 1, Len(stack) - 1)
            /\ records' = records \o <<<<ti, fi>>, <<ti, stack[Len(stack)], EvStart>>>>
       ELSE /\ state' = None
            /\ fid' = fid
            /\ stack' = stack
            /\ records' = Append(records, <<ti, fi>>)
    /\ UNCHANGED outer
    /\ UNCHANGED <<chunk, pc, result, error>>

\* an end of the active stay that resumes the oldest suspended facility
\* (popleft) instead of the most recent one
CaseEndActivePopLeft ==
    /\ Pop
    /\ ~(state = None /\ stack = <<>>)
    /\ si = EvEnd /\ fi = fid
    /\ IF stack # <<>>
       THEN /\ state' = EvStart
            /\ fid' = stack[1]
            /\ stack' = Tail(stack)
            /\ records' = records \o <<<<ti, fi>>, <<ti, stack[1], EvStart>>>>
       ELSE /\ state' = None
            /\ fid' = None
            /\ stack' = stack
            /\ records' = Append(records, <<ti, fi>>)
    /\ UNCHANGED outer
    /\ UNCHANGED <<chunk, pc, result, error>>

\* elif si is EventClass.end and fi == fid
CaseEndActive ==
    /\ Pop
    /\ ~(state = None /\ stack = <<>>)
    /\ si = EvEnd /\ fi = fid
    /\ IF stack # <<>>
       THEN /\ state' = EvStart
            /\ fid' = stack[Len(stack)]
            /\ stack' = SubSeq(stack, 1, Len(stack) - 1)
            /\ records' = records \o <<<<ti, fi>>, <<ti, stack[Len(stack)], EvStart>>>>
       ELSE /\ state' = None
            /\ fid' = None
            /\ stack' = stack
            /\ records' = Append(records, <<ti, fi>>)
    /\ UNCHANGED outer
    /\ UNCHANGED <<chunk, pc, result, error>>

\* an end of a suspended stay that leaves the stack as it is
CaseEndOtherNoRemove ==
    /\ Pop
    /\ ~(state = None /\ stack = <<>>)
    /\ si = EvEnd /\ fi # fid
    /\ UNCHANGED outer
    /\ UNCHANGED <<chunk, pc, fid, state, records, stack, result, error>>

\* elif si is EventClass.end and fi != fid: stack.remove(fi)
CaseEndOther ==
    /\ Pop
    /\ ~(state = None /\ stack = <<>>)
    /\ si = EvEnd /\ fi # fid
    /\ IF InSeq(stack, fi)
       THEN /\ stack' = RemoveFirst(stack, fi)
            /\ pc' = pc
            /\ error' = error
       ELSE /\ stack' = stack
            /\ pc' = "raised"
            /\ error' = "ValueError"
    /\ UNCHANGED outer
    /\ UNCHANGED <<chunk, fid, state, records, result>>

\* the queue is empty: slow_break returns records, inverse_transform pairs
\* them up and clean_overlaps returns the intervals
Return ==
    /\ pc = "sweep"
    /\ times = <<>>
    /\ IF PairsMatch(records)
       THEN /\ result' = inverse_transform(records)
            /\ pc' = "returned"
            /\ error' = error
       ELSE /\ result' = result
            /\ pc' = "raised"
            /\ error' = "AssertionError"
    /\ UNCHANGED outer
    /\ UNCHANGED <<chunk, times, fid, state, records, stack, consumed>>

Next ==
    \/ EnterSlowBreak
    \/ CaseIdle
    \/ CaseSameStart
    \/ CaseOtherStart
    \/ CaseEndActive
    \/ CaseEndOther
    \/ Return

Spec == Init /\ [][Next]_vars

----------------------------------------------------------------------------
(* Vocabulary of the properties *)

Returned == pc = "returned"

\* the stay st covers the unit of time [t, t+1)
Covers(st, t) == st[2] <= t /\ t < st[3]
CoveredBy(c, t) == \E i \in 1..Len(c) : Covers(c[i], t)

\* every unit of time an input of the model can cover
Cells == 1..(MaxTime + AnyMaxTime + NestMaxTime)

RECURSIVE SumDurations(_)
SumDurations(c) ==
    IF c = <<>> THEN 0 ELSE (Head(c)[3] - Head(c)[2]) + SumDurations(Tail(c))

\* sorted by start_time, and no stay starts before the one before it ends
StartSorted(c) == \A i \in 1..(Len(c) - 1) : c[i][2] <= c[i + 1][2]
NonOverlapping(c) == \A i \in 1..(Len(c) - 1) : c[i][3] <= c[i + 1][2]

\* two stays overlap in time
Overlap(a, b) == a[2] < b[3] /\ b[2] < a[3]
HasOverlap(c) == \E i, j \in 1..Len(c) : i # j /\ Overlap(c[i], c[j])

----------------------------------------------------------------------------
(* Postconditions of clean_overlaps *)

\* C1: on a well-formed input (start_time < end_time per stay, any number of
\* stays, any overlap pattern, any order) the returned list is in
\* non-decreasing start_time order and end[i] <= start[i+1] for every
\* adjacent pair.
C1_NoOverlapPostcondition ==
    (Returned /\ WellFormed(chunk)) => (StartSorted(result) /\ NonOverlapping(result))

\* an unsorted input with an overlap has been resolved into three stays or more
C1_Witness ==
    /\ Returned /\ WellFormed(chunk)
    /\ HasOverlap(chunk) /\ ~StartSorted(chunk)
    /\ Len(result) >= 3

\* C2: on a well-formed input the output covers exactly the time the input
\* covers, the summed output durations equal the length of that union, and
\* at every covered unit of time the facility of the output stay covering it
\* is the facility of an input stay covering it.
C2_CoveragePreserved ==
    (Returned /\ WellFormed(chunk)) =>
        /\ \A t \in Cells : CoveredBy(result, t) <=> CoveredBy(chunk, t)
        /\ SumDurations(result) = Cardinality({t \in Cells : CoveredBy(chunk, t)})
        /\ \A i \in 1..Len(result) : \A t \in Cells :
              Covers(result[i], t) =>
                  \E j \in 1..Len(chunk) : chunk[j][1] = result[i][1] /\ Covers(chunk[j], t)

\* two facilities overlap, and the input has a gap that stays uncovered
C2_Witness ==
    /\ Returned /\ WellFormed(chunk)
    /\ \E i, j \in 1..Len(chunk) : chunk[i][1] # chunk[j][1] /\ Overlap(chunk[i], chunk[j])
    /\ \E t \in Cells : ~CoveredBy(chunk, t) /\ CoveredBy(chunk, t - 1) /\ CoveredBy(chunk, t + 1)

\* C3: same-facility overlap (continuity case): for (f,s1,e1), (f,s2,e2) with
\* s1 < s2 < e1 < e2 clean_overlaps returns exactly [(f,s1,s2), (f,s2,e2)].
C3_ContinuityCase ==
    (Returned /\ Len(chunk) = 2) =>
        \A i, j \in 1..2 :
            LET a == chunk[i]
                b == chunk[j]
            IN  (a[1] = b[1] /\ a[2] < b[2] /\ b[2] < a[3] /\ a[3] < b[3])
                => result = <<Stay(a[1], a[2], b[2]), Stay(a[1], b[2], b[3])>>

\* C4: nested return: for f # g and (f,s1,e1), (g,s2,e2) with
\* s1 < s2 < e2 < e1 the result is exactly [(f,s1,s2), (g,s2,e2), (f,e2,e1)].
C4_NestedReturn ==
    (Returned /\ Len(chunk) = 2) =>
        \A i, j \in 1..2 :
            LET a == chunk[i]
                b == chunk[j]
            IN  (a[1] # b[1] /\ a[2] < b[2] /\ b[2] < b[3] /\ b[3] < a[3])
                => result = <<Stay(a[1], a[2], b[2]), Stay(b[1], b[2], b[3]),
                              Stay(a[1], b[3], a[3])>>

\* a stay of one facility strictly inside a stay of another has been resolved
C4_Witness ==
    /\ Returned /\ Len(chunk) = 2 /\ Len(result) = 3
    /\ chunk[1][1] # chunk[2][1]
    /\ chunk[1][2] < chunk[2][2] /\ chunk[2][2] < chunk[2][3] /\ chunk[2][3] < chunk[1][3]
    /\ result[3][1] = chunk[1][1]

\* C5: simple truncation: for f # g and (f,s1,e1), (g,s2,e2) with
\* s1 < s2 < e1 < e2 the result is exactly [(f,s1,s2), (g,s2,e2)].
C5_SimpleTruncation ==
    (Returned /\ Len(chunk) = 2) =>
        \A i, j \in 1..2 :
            LET a == chunk[i]
                b == chunk[j]
            IN  (a[1] # b[1] /\ a[2] < b[2] /\ b[2] < a[3] /\ a[3] < b[3])
                => result = <<Stay(a[1], a[2], b[2]), Stay(b[1], b[2], b[3])>>

\* two stays of different facilities that overlap without nesting have been
\* resolved
C5_Witness ==
    /\ Returned /\ Len(chunk) = 2 /\ Len(result) = 2
    /\ chunk[1][1] # chunk[2][1]
    /\ chunk[1][2] < chunk[2][2] /\ chunk[2][2] < chunk[1][3] /\ chunk[1][3] < chunk[2][3]
    /\ result[1][3] = chunk[2][2]

\* C6: triple nesting: for pairwise distinct a, b, c and stays (a,sa,ea),
\* (b,sb,eb), (c,sc,ec), (b,s4,e4) with sa < sb < sc < ea < ec < eb < s4 < e4
\* the result is exactly [(a,sa,sb), (b,sb,sc), (c,sc,ec), (b,ec,eb), (b,s4,e4)].
C6_TripleNesting ==
    (Returned /\ Len(chunk) = 4) =>
        \A p \in Perms(4) :
            LET a == chunk[p[1]]
                b == chunk[p[2]]
                c == chunk[p[3]]
                d == chunk[p[4]]
            IN  (/\ a[1] # b[1] /\ a[1] # c[1] /\ b[1] # c[1] /\ d[1] = b[1]
                 /\ a[2] < b[2] /\ b[2] < c[2] /\ c[2] < a[3] /\ a[3] < c[3]
                 /\ c[3] < b[3] /\ b[3] < d[2] /\ d[2] < d[3])
                => result = <<Stay(a[1], a[2], b[2]), Stay(b[1], b[2], c[2]),
                              Stay(c[1], c[2], c[3]), Stay(b[1], c[3], b[3]),
                              Stay(d[1], d[2], d[3])>>

\* the nesting scenario with three distinct facilities has been resolved
C6_Witness ==
    /\ Returned /\ Len(chunk) = 4 /\ Len(result) = 5
    /\ \E p \in Perms(4) :
          LET a == chunk[p[1]]
              b == chunk[p[2]]
              c == chunk[p[3]]
              d == chunk[p[4]]
          IN  /\ a[1] # b[1] /\ a[1] # c[1] /\ b[1] # c[1] /\ d[1] = b[1]
              /\ a[2] < b[2] /\ b[2] < c[2] /\ c[2] < a[3] /\ a[3] < c[3]
              /\ c[3] < b[3] /\ b[3] < d[2] /\ d[2] < d[3]
              /\ result[4] = Stay(b[1], c[3], b[3])

\* C7: idempotence on non-overlapping input: for every start-sorted
\* well-formed list with start[i+1] >= end[i] for all adjacent pairs (touching
\* stays of equal or different facilities included) clean_overlaps returns a
\* list equal to its input.
C7_Idempotence ==
    (Returned /\ WellFormed(chunk) /\ StartSorted(chunk) /\ NonOverlapping(chunk))
        => result = chunk

Last(s) == s[Len(s)]

\* C8: no stay is dropped: on a well-formed input, right after a Start(f)
\* event is processed the active facility is f, and the output has, for
\* every input stay (f,s,e), a stay of f that starts at s; so every input
\* facility appears in the output, which has at least as many stays as the
\* input.
C8_NoStayDropped ==
    WellFormed(chunk) =>
        /\ (pc = "sweep" /\ consumed # <<>> /\ Last(consumed)[3] = EvStart)
              => fid = Last(consumed)[2]
        /\ Returned =>
              /\ \A i \in 1..Len(chunk) : \E j \in 1..Len(result) :
                    result[j][1] = chunk[i][1] /\ result[j][2] = chunk[i][2]
              /\ Len(result) >= Len(chunk)

\* a stay that started while another stay of the same facility was open, and
\* a stay that started while another facility was active, are in the output
C8_Witness ==
    /\ Returned /\ WellFormed(chunk)
    /\ \E i, j \in 1..Len(chunk) :
          /\ i # j /\ chunk[i][1] = chunk[j][1]
          /\ chunk[i][2] < chunk[j][2] /\ chunk[j][2] < chunk[i][3]
    /\ \E i, j \in 1..Len(chunk) :
          /\ chunk[i][1] # chunk[j][1]
          /\ chunk[i][2] < chunk[j][2] /\ chunk[j][2] < chunk[i][3]

\* the sweep has stopped: the queue is empty
SweepOver == (pc = "sweep" /\ times = <<>>) \/ Returned

\* C9: clean termination: for a well-formed input of n stays the sweep
\* consumes each of the 2n events exactly once, in order, raises nothing and
\* stops; at that point the active facility is none and the stack is empty.
C9_CleanTermination ==
    WellFormed(chunk) =>
        /\ pc # "raised"
        /\ pc \in {"sweep", "returned"} => consumed \o times = transform(chunk)
        /\ SweepOver =>
              /\ Len(consumed) = 2 * Len(chunk)
              /\ fid = None
              /\ stack = <<>>

\* a sweep that suspended two facilities at once has stopped
C9_Witness ==
    /\ SweepOver /\ WellFormed(chunk) /\ Len(chunk) >= 3
    /\ \E k \in 1..Len(records) : Len(records[k]) = 3 /\ k > 1
    /\ \E i, j, k \in 1..Len(chunk) :
          /\ chunk[i][2] < chunk[j][2] /\ chunk[j][2] < chunk[k][2]
          /\ chunk[k][2] < chunk[i][3] /\ chunk[k][2] < chunk[j][3]

\* C10: failure signal: for every input, stays with start_time >= end_time
\* included, clean_overlaps returns no result from a sweep that ended with a
\* non-empty stack or an active facility.
C10_NoResultFromUncleanSweep ==
    Returned => (stack = <<>> /\ fid = None /\ state = None)

\* an input with a stay whose start_time is after its end_time has produced
\* a result of two stays or more
C10_Witness ==
    /\ Returned /\ Len(result) >= 2
    /\ \E i \in 1..Len(chunk) : chunk[i][2] > chunk[i][3]

----------------------------------------------------------------------------
(* The sweep of slow_break, event by event *)

\* the sweep is running or has returned: the locals of slow_break are set
InSweep == pc \in {"sweep", "returned"}

\* the branch the next event takes
Idle == state = None /\ stack = <<>>
Case4Step == pc = "sweep" /\ times # <<>> /\ ~Idle /\ si = EvEnd /\ fi = fid
Case5Step == pc = "sweep" /\ times # <<>> /\ ~Idle /\ si = EvEnd /\ fi # fid

CountIn(s, x) == Cardinality({i \in 1..Len(s) : s[i] = x})
CountKind(evs, k) == Cardinality({i \in 1..Len(evs) : evs[i][3] = k})
\* stays of facility f that have started and not ended yet
OpenStays(f) ==
    Cardinality({i \in 1..Len(consumed) : consumed[i][2] = f /\ consumed[i][3] = EvStart})
    - Cardinality({i \in 1..Len(consumed) : consumed[i][2] = f /\ consumed[i][3] = EvEnd})

\* C13: on a well-formed input, after each processed event, if the active
\* facility is not none then no entry of the stack equals it.
C13_ActiveNotOnStack ==
    (WellFormed(chunk) /\ InSweep /\ fid # None) => ~InSeq(stack, fid)

\* C14: open-stay accounting: on a well-formed input, after every processed
\* event, (Start events processed) - (End events processed) equals the stack
\* depth plus 1 if a facility is active; the active facility is none exactly
\* when that difference is zero.
C14_OpenStayAccounting ==
    (WellFormed(chunk) /\ InSweep) =>
        LET open == CountKind(consumed, EvStart) - CountKind(consumed, EvEnd)
        IN  /\ open = Len(stack) + (IF fid # None THEN 1 ELSE 0)
            /\ (fid = None) <=> (open = 0)

\* three stays have started, one has ended, one is active and one suspended
C14_Witness ==
    /\ WellFormed(chunk) /\ pc = "sweep"
    /\ fid # None /\ Len(stack) = 1
    /\ CountKind(consumed, EvStart) = 3 /\ CountKind(consumed, EvEnd) = 1

\* C15: event tie-break: the events the sweep consumes are ordered by time,
\* and among events with the same time every Start comes before every End,
\* whatever the facilities of those events are.
C15_StartBeforeEnd ==
    (WellFormed(chunk) /\ pc = "sweep") =>
        \A i, j \in 1..Len(times) :
            i < j => /\ times[i][1] <= times[j][1]
                     /\ times[i][1] = times[j][1]
                           => ~(times[i][3] = EvEnd /\ times[j][3] = EvStart)

\* C16: pairing postcondition: on a well-formed input the markers emitted by
\* slow_break are even in number and, two at a time in emission order, each
\* pair is a Start marker followed by an End marker of the same facility
\* with time(Start) <= time(End); the assertion of inverse_transform holds.
C16_PairingPostcondition ==
    WellFormed(chunk) =>
        /\ pc # "raised"
        /\ SweepOver =>
              /\ Len(records) % 2 = 0
              /\ PairsMatch(records)
              /\ \A i \in 1..PairCount(records) :
                    /\ records[2 * i - 1][1] <= records[2 * i][1]
                    /\ Len(records[2 * i]) = 2
                    /\ Len(records[2 * i - 1]) = 3 => records[2 * i - 1][3] = EvStart

\* a sweep that suspended and resumed a facility has emitted six markers or more
C16_Witness ==
    /\ WellFormed(chunk) /\ SweepOver
    /\ Len(records) >= 6
    /\ \E i \in 2..Len(records) : Len(records[i]) = 3

\* C17: end of a suspended facility (case 5): on a well-formed input, when
\* End(f) is processed with f different from the active facility, exactly
\* one occurrence of f leaves the stack, and the emitted markers and the
\* active facility stay as they are.
C17_EndSuspendedFrame ==
    [][(WellFormed(chunk) /\ Case5Step) =>
          /\ \E i \in 1..Len(stack) :
                /\ stack[i] = fi
                /\ stack' = SubSeq(stack, 1, i - 1) \o SubSeq(stack, i + 1, Len(stack))
          /\ records' = records
          /\ fid' = fid
          /\ state' = state
          /\ pc' = "sweep"]_vars

\* an End of a suspended facility has just been processed (no marker carries
\* its time) and another facility is still suspended
C17_Witness ==
    /\ WellFormed(chunk) /\ pc = "sweep"
    /\ consumed # <<>> /\ Last(consumed)[3] = EvEnd
    /\ fid # None /\ Last(consumed)[2] # fid
    /\ Last(records)[1] < Last(consumed)[1]
    /\ stack # <<>>

\* C18: end of the active facility (case 4): End(f) is emitted at the current
\* time; if the stack is non-empty its most recently pushed entry is popped,
\* becomes the active facility and a Start marker for it is emitted at the
\* same time; otherwise the active facility becomes none and nothing more is
\* emitted.
C18_EndActive ==
    [][Case4Step =>
          /\ pc' = "sweep"
          /\ IF stack # <<>>
             THEN /\ Len(stack') = Len(stack) - 1
                  /\ \A i \in 1..Len(stack') : stack'[i] = stack[i]
                  /\ fid' = stack[Len(stack)]
                  /\ Len(records') = Len(records) + 2
                  /\ SubSeq(records', 1, Len(records)) = records
                  /\ records'[Len(records) + 1] = <<ti, fi>>
                  /\ records'[Len(records) + 2] = <<ti, stack[Len(stack)], EvStart>>
             ELSE /\ stack' = <<>>
                  /\ fid' = None
                  /\ state' = None
                  /\ records' = Append(records, <<ti, fi>>)]_vars

\* the active stay has just ended and the most recent of two suspended
\* facilities has been resumed, the older one being a different facility
C18_Witness ==
    /\ pc = "sweep"
    /\ consumed # <<>> /\ Last(consumed)[3] = EvEnd
    /\ records # <<>> /\ Len(Last(records)) = 3 /\ Len(records) > 1
    /\ Last(records)[1] = Last(consumed)[1]
    /\ stack # <<>> /\ stack[1] # fid

\* C19: slow_break never raises on a well-formed input: an event seen while
\* no facility is active and the stack is empty is a Start, every End(f) of
\* a non-active facility finds f on the stack, because for every facility
\* the number of its open stays equals its occurrences on the stack plus one
\* if it is the active facility.
C19_NeverRaises ==
    WellFormed(chunk) =>
        /\ pc # "raised"
        /\ (pc = "sweep" /\ times # <<>> /\ Idle) => si = EvStart
        /\ Case5Step => InSeq(stack, fi)
        /\ InSweep =>
              \A i \in 1..Len(chunk) :
                  OpenStays(chunk[i][1])
                      = CountIn(stack, chunk[i][1]) + (IF fid = chunk[i][1] THEN 1 ELSE 0)

\* an End of a suspended facility is about to be removed from a stack that
\* holds the same facility twice
C19_Witness ==
    /\ WellFormed(chunk) /\ Case5Step
    /\ CountIn(stack, fi) = 2

----------------------------------------------------------------------------
(* The callers of clean_overlaps: fix_overlapping_stays of src/cleaner.py  *)
(* and of src/transfer_linkage/cleaner.py, and fix_all_overlaps.  A chunk  *)
(* is <<sID, rows>>, a row being (fID, Adate, Ddate).                      *)

\* fix_all_overlaps is given the chunks of NumSubjects subjects
NumSubjects == 2

OldCleaner == "cleaner"
NewCleaner == "transfer_linkage.cleaner"

Sid(t) == t[1]
Rows(t) == t[2]

\* any(Adate[1:] < Ddate[:-1]): the rows are compared in the order given
has_overlaps(rows) == \E i \in 1..(Len(rows) - 1) : rows[i + 1][2] < rows[i][3]

\* the rows in an order .sort('Adate') can give them (ties in any order)
SortedByAdate(rows) ==
    {c \in {[i \in 1..Len(rows) |-> rows[p[i]]] : p \in Perms(Len(rows))} : StartSorted(c)}

\* concat([sID, new_stays], how='horizontal').fill_null(strategy='forward'):
\* the shorter side is padded with its last row
ForwardFill(stays, n) ==
    [i \in 1..(IF Len(stays) >= n THEN Len(stays) ELSE n) |->
        IF i <= Len(stays) THEN stays[i] ELSE stays[Len(stays)]]

\* where fix_overlapping_stays returns to
AfterFix == IF caller = "fix_all_overlaps" THEN "fix_all_overlaps" ELSE "fix_returned"

\* the condition under which the chunk is handed to clean_overlaps:
\* src/cleaner.py tests has_overlaps and verbose together
Proceeds ==
    IF version = OldCleaner
    THEN has_overlaps(Rows(table)) /\ verbose
    ELSE has_overlaps(Rows(table))

\* else: return chunk
FixFastPath ==
    /\ pc = "fix_overlapping_stays"
    /\ ~Proceeds
    /\ done' = Append(done, table)
    /\ pc' = AfterFix
    /\ UNCHANGED <<chunk, times, fid, state, records, stack, consumed, result, error>>
    /\ UNCHANGED <<caller, version, verbose, table, pending, record_log, calls>>

\* has_overlaps: the subject is logged, the rows are sorted by Adate and
\* given to clean_overlaps
FixCallEngine ==
    /\ pc = "fix_overlapping_stays"
    /\ Proceeds
    /\ record_log' = IF version = NewCleaner /\ verbose /\ caller = "fix_all_overlaps"
                     THEN Append(record_log, Sid(table))
                     ELSE record_log
    /\ chunk' \in SortedByAdate(Rows(table))
    /\ calls' = calls + 1
    /\ times' = <<>>
    /\ fid' = None
    /\ state' = None
    /\ records' = <<>>
    /\ stack' = <<>>
    /\ consumed' = <<>>
    /\ result' = <<>>
    /\ pc' = "clean_overlaps"
    /\ UNCHANGED <<error, caller, version, verbose, table, pending, done>>

\* clean_overlaps has returned: the stays are put back beside the sID column
FixRebuild ==
    /\ pc = "returned"
    /\ caller # "clean_overlaps"
    /\ done' = Append(done, <<Sid(table), ForwardFill(result, Len(Rows(table)))>>)
    /\ pc' = AfterFix
    /\ UNCHANGED <<chunk, times, fid, state, records, stack, consumed, result, error>>
    /\ UNCHANGED <<caller, version, verbose, table, pending, record_log, calls>>

\* map(overlap_fixing_method, subject_chunks): the next chunk
AllNextChunk ==
    /\ pc = "fix_all_overlaps"
    /\ pending # <<>>
    /\ table' = Head(pending)
    /\ pending' = Tail(pending)
    /\ pc' = "fix_overlapping_stays"
    /\ UNCHANGED <<chunk, times, fid, state, records, stack, consumed, result, error>>
    /\ UNCHANGED <<caller, version, verbose, done, record_log, calls>>

\* pl.concat(...) has every chunk: fix_all_overlaps returns
AllReturn ==
    /\ pc = "fix_all_overlaps"
    /\ pending = <<>>
    /\ pc' = "all_returned"
    /\ UNCHANGED <<chunk, times, fid, state, records, stack, consumed, result, error>>
    /\ UNCHANGED outer

\* an exception raised under fix_all_overlaps leaves it as it was raised: no
\* handler adds the subject to it
ErrorSubject == None

\* chunks given to fix_all_overlaps: touching, unsorted, overlapping, and two
\* with a discharge before the admission (stack.remove fails, the assertion
\* of the idle case fails)
SampleRows ==
    { <<Stay(1, 1, 2), Stay(2, 2, 3)>>,
      <<Stay(2, 3, 4), Stay(1, 1, 2)>>,
      <<Stay(1, 1, 3), Stay(2, 2, 4)>>,
      <<Stay(1, 1, 3), Stay(2, 2, 1)>>,
      <<Stay(1, 3, 3), Stay(1, 2, 1)>> }

EngineIdle ==
    /\ chunk = <<>>
    /\ times = <<>>
    /\ fid = None
    /\ state = None
    /\ records = <<>>
    /\ stack = <<>>
    /\ consumed = <<>>
    /\ result = <<>>
    /\ error = "none"
    /\ done = <<>>
    /\ record_log = <<>>
    /\ calls = 0

\* fix_overlapping_stays(chunk, verbose) of either module, record_log=None
InitFix ==
    /\ EngineIdle
    /\ caller = "fix_overlapping_stays"
    /\ version \in {OldCleaner, NewCleaner}
    /\ verbose \in BOOLEAN
    /\ table \in {<<1, rows>> : rows \in GoodInputs \cup AnyInputs}
    /\ pending = <<>>
    /\ pc = "fix_overlapping_stays"

\* fix_all_overlaps(database, verbose), the database partitioned by sID
InitAll ==
    /\ EngineIdle
    /\ caller = "fix_all_overlaps"
    /\ version = NewCleaner
    /\ verbose \in BOOLEAN
    /\ table = <<None, <<>>>>
    /\ pending \in {[i \in 1..NumSubjects |-> <<i, rs[i]>>] : rs \in [1..NumSubjects -> SampleRows]}
    /\ pc = "fix_all_overlaps"

InitCleaner == InitFix \/ InitAll

NextCleaner ==
    \/ FixFastPath
    \/ FixCallEngine
    \/ FixRebuild
    \/ AllNextChunk
    \/ AllReturn
    \/ EnterSlowBreak
    \/ CaseIdle
    \/ CaseSameStart
    \/ CaseOtherStart
    \/ CaseEndActive
    \/ CaseEndOther
    \/ Return

SpecCleaner == InitCleaner /\ [][NextCleaner]_vars

\* fix_overlapping_stays, called on its own, has returned its table
FixReturned == caller = "fix_overlapping_stays" /\ pc = "fix_returned"

\* the rows, once sorted by admission time, have start[i+1] >= end[i]
NoOverlapOnceSorted(rows) == \E c \in SortedByAdate(rows) : NonOverlapping(c)

\* C11: fast path: a chunk, in any row order, whose stays once sorted by
\* admission time satisfy start[i+1] >= end[i] is returned unchanged without
\* a call of clean_overlaps; and a chunk returned unchanged has no overlap.
C11_FastPath ==
    (caller = "fix_overlapping_stays" /\ WellFormed(Rows(table))) =>
        /\ NoOverlapOnceSorted(Rows(table)) =>
              /\ calls = 0
              /\ FixReturned => Last(done) = table
        /\ (FixReturned /\ Last(done) = table) => ~HasOverlap(Rows(table))

\* C12: failure isolation in fix_all_overlaps: when the resolution of one
\* subject's chunk fails, every other subject's chunk is still resolved, and
\* the failure that is propagated names the offending subject.
C12_FailureIsolation ==
    (caller = "fix_all_overlaps" /\ pc = "raised") =>
        /\ pending = <<>>
        /\ Len(done) = NumSubjects - 1
        /\ ErrorSubject = Sid(table)

\* C20: the verbose flag does not influence the result of
\* fix_overlapping_stays in either module: the table returned depends on the
\* chunk alone (clean_overlaps is left out exactly when has_overlaps is
\* false), and a chunk with overlapping stays is resolved when verbose=False.
C20_VerboseIrrelevant ==
    FixReturned =>
        /\ (calls = 0) <=> ~has_overlaps(Rows(table))
        /\ (~verbose /\ WellFormed(Rows(table)) /\ HasOverlap(Rows(table)))
              => (calls = 1 /\ ~HasOverlap(Rows(Last(done))))

====
